---- MODULE Spec2Model ----
(***************************************************************************)
(* grain-auto-uploader: the ingestion-and-upload pipeline.                 *)
(*                                                                         *)
(* Spec       the watcher's queue (watcher.js): 'add' events, processQueue *)
(*            and the handling of one file at a time: waitForStableFile,   *)
(*            processFile / uploadFileToGrain, moveToProcessed, notifier.  *)
(*            An `await` settled by a timer or by I/O is a step boundary;  *)
(*            what runs in the same turn belongs to the step.  Wall-clock  *)
(*            readings, file sizes, file-system errors and the remote      *)
(*            service's responses are inputs chosen by the environment.    *)
(* FairSpec   Spec with the event loop's scheduling: every pending timer,  *)
(*            promise continuation and setImmediate callback runs.         *)
(* SpecWriter waitForStableFile on one file under an exact 100 ms clock,   *)
(*            with a writer appending bytes every WriterPeriodMs.          *)
(*            FairSpecWriter adds that the interval keeps firing.          *)
(* SpecUpload one call of uploadFileToGrain with its two polling loops     *)
(*            counted exactly; FairSpecUpload adds that its timers fire    *)
(*            and its awaited browser calls settle.                        *)
(* SpecWatch  the 'add' handler under the allow-lists that                 *)
(*            SUPPORTED_EXTENSIONS in the environment can give.            *)
(* SpecStartup  Spec started in a folder that already holds a file.        *)
(*                                                                         *)
(* Paths are sequences of one-character strings, so that path.basename,    *)
(* path.extname, toLowerCase and String.includes are computed.             *)
(***************************************************************************)
EXTENDS Integers, Sequences, FiniteSets, TLC

\* ------------------------------------------------------------------ bounds
MaxAdds == 3          \* accepted fileAdded events in one behaviour
MaxPolls == 3         \* polls of one waitForStableFile before the clock must have expired
MaxStamp == 1         \* distinct readings of getTimestampSuffix
MaxWriterStop == 12   \* SpecWriter: the writer stops within this many 100 ms steps, or never

\* --------------------------------------------------------------- constants
intervalMs == 500     \* waitForStableFile default
stableChecks == 2     \* waitForStableFile default
timeoutMs == 30000    \* waitForStableFile default
initiationTimeout == 60000     \* uploadFileToGrain, stage 1
completionTimeout == 1200000   \* uploadFileToGrain, stage 2
pollInterval == 1000           \* uploadFileToGrain, both loops
ClockStepMs == intervalMs \div 5     \* resolution of SpecWriter's clock: 100 ms
WriterPeriodMs == 2 * ClockStepMs    \* the synthetic writer appends every 200 ms

\* ------------------------------------------------------------------- paths
SEP == "/"
WATCH_FOLDER == <<"/", "w">>
PROCESSED_FOLDER == WATCH_FOLDER \o <<"/", "P">>
DEFAULT_SUPPORTED_EXTENSIONS == { <<".", "m", "p", "3">>, <<".", "m", "p", "4">>,
                                  <<".", "m", "o", "v">>, <<".", "w", "a", "v">>,
                                  <<".", "m", "4", "a">> }

A_MP3 == WATCH_FOLDER \o <<"/", "a", ".", "m", "p", "3">>
B_MP3 == WATCH_FOLDER \o <<"/", "b", ".", "M", "P", "3">>
N_TXT == WATCH_FOLDER \o <<"/", "n", ".", "t", "x", "t">>
P_MP3 == PROCESSED_FOLDER \o <<"/", "a", ".", "m", "p", "3">>
\* a file of the watch folder whose name starts like the Processed folder's
P_NAMED == WATCH_FOLDER \o <<"/", "P", ".", "m", "p", "3">>
EventPaths == {A_MP3, B_MP3, N_TXT, P_MP3}

\* String.prototype.toLowerCase, on the letters the paths use
LowerChar(c) ==
    CASE c = "M" -> "m" [] c = "P" -> "p" [] c = "A" -> "a" [] c = "B" -> "b"
      [] c = "T" -> "t" [] c = "X" -> "x" [] c = "W" -> "w" [] c = "V" -> "v"
      [] c = "O" -> "o" [] OTHER -> c
toLowerCase(s) == [k \in 1..Len(s) |-> LowerChar(s[k])]

\* last index of character c in s, 0 when absent
LastIndexOf(s, c) ==
    LET hits == {k \in 1..Len(s) : s[k] = c}
    IN  IF hits = {} THEN 0 ELSE CHOOSE k \in hits : \A j \in hits : j <= k

\* path.basename(p)
basename(p) == SubSeq(p, LastIndexOf(p, SEP) + 1, Len(p))

\* path.extname(p): from the last "." of the basename; "" when there is none
\* or when the basename starts with its only dot
extname(p) ==
    LET b == basename(p)
        d == LastIndexOf(b, ".")
    IN  IF d <= 1 THEN <<>> ELSE SubSeq(b, d, Len(b))

\* String.prototype.includes
includes(s, t) ==
    \E k \in 0..(Len(s) - Len(t)) : SubSeq(s, k + 1, k + Len(t)) = t

\* String.prototype.trim, on spaces
RECURSIVE trimStart(_)
trimStart(s) == IF s # <<>> /\ Head(s) = " " THEN trimStart(Tail(s)) ELSE s
RECURSIVE trimEnd(_)
trimEnd(s) ==
    IF s # <<>> /\ s[Len(s)] = " " THEN trimEnd(SubSeq(s, 1, Len(s) - 1)) ELSE s
trim(s) == trimEnd(trimStart(s))

\* String.prototype.split(','): the pieces between the commas
RECURSIVE split(_)
split(s) ==
    LET commas == {k \in 1..Len(s) : s[k] = ","}
        first == CHOOSE k \in commas : \A j \in commas : k <= j
    IN  IF commas = {} THEN <<s>>
        ELSE <<SubSeq(s, 1, first - 1)>> \o split(SubSeq(s, first + 1, Len(s)))

\* parseExtensions (part_002 14-24); the empty string stands for an unset
\* variable as well
parseExtensions(extensionsString) ==
    IF extensionsString = <<>>
    THEN {}
    ELSE LET pieces == split(extensionsString)
             trimmed == {trim(pieces[k]) : k \in 1..Len(pieces)}
         IN  {IF Head(ext) = "." THEN ext ELSE <<".">> \o ext :
                 ext \in {t \in trimmed : Len(t) > 0}}

\* config.SUPPORTED_EXTENSIONS for a value of the environment variable
\* (part_002 57-60)
configuredExtensions(env) ==
    LET parsed == parseExtensions(env)
    IN  IF Cardinality(parsed) > 0 THEN parsed ELSE DEFAULT_SUPPORTED_EXTENSIONS

\* values of process.env.SUPPORTED_EXTENSIONS: unset, ".mp3", "mp3, .wav",
\* ".MP3,.WAV"
EnvExtensions ==
    { <<>>,
      <<".", "m", "p", "3">>,
      <<"m", "p", "3", ",", " ", ".", "w", "a", "v">>,
      <<".", "M", "P", "3", ",", ".", "W", "A", "V">> }

VARIABLE SUPPORTED_EXTENSIONS   \* config.SUPPORTED_EXTENSIONS, read by watcher.js 157

isSupportedFile(filePath) == toLowerCase(extname(filePath)) \in SUPPORTED_EXTENSIONS
isInProcessedFolder(filePath) == includes(filePath, PROCESSED_FOLDER)

Accepted(filePath) == ~isInProcessedFolder(filePath) /\ isSupportedFile(filePath)

\* ------------------------------------------------------------------- state
VARIABLES
    fileQueue,        \* watcher.js: const fileQueue = []
    isProcessing,     \* watcher.js: let isProcessing = false
    immediates,       \* pending setImmediate(() => processQueue()) callbacks
    runs,             \* the processQueue invocations that passed the guard, in start
                      \* order, each with its locals and its position
    enqueued,         \* history: the paths pushed onto fileQueue, in push order
    watchFiles,       \* file system: the paths present in the watch folder
    processedFiles,   \* file system: Processed folder, destination name -> content
    grainConfigured,  \* config.GRAIN_EMAIL && config.GRAIN_PASSWORD
    now,              \* SpecWriter: ms since waitForStableFile was called
    fileSize,         \* SpecWriter: the size of the file on disk
    writerOn,         \* SpecWriter: the writer is still appending
    elapsedTime,      \* SpecUpload: let elapsedTime of uploadFileToGrain's two loops
    observed          \* SpecUpload: history of what the remote service did

vars == <<fileQueue, isProcessing, immediates, runs, enqueued, watchFiles,
          processedFiles, grainConfigured, now, fileSize, writerOn,
          elapsedTime, observed, SUPPORTED_EXTENSIONS>>
writerVars == <<now, fileSize, writerOn>>
sessionVars == <<elapsedTime, observed>>
configVars == <<grainConfigured, SUPPORTED_EXTENSIONS>>

\* ------------------------------------------------------------ value shapes
NoMessage == <<>>
NoResult == [ok |-> FALSE, message |-> NoMessage, recordingUrl |-> "", recordingId |-> ""]
NoData == [id |-> "", recordingUrl |-> "", state |-> ""]
NoObservation == [ack |-> "none", first |-> NoData, rejected |-> FALSE, ignored |-> FALSE,
                  stages |-> <<"Idle">>, ackIn |-> "none", firstAcked |-> FALSE]
NoMove == [attempted |-> FALSE, threw |-> FALSE, dest |-> <<>>, srcRemoved |-> FALSE,
           error |-> NoMessage]

\* the locals of a processQueue invocation at its first await (watcher.js 178-184)
\* and of the waitForStableFile call it makes (part_000 27-29)
NewRun(filePath) ==
    [ filePath |-> filePath,
      pc |-> "stabilizing",
      previousSize |-> -1,
      stableCount |-> 0,
      polls |-> 0,
      waitError |-> NoMessage,
      browser |-> "none",
      uploadStarted |-> FALSE,
      uploadSuccess |-> FALSE,
      recordingData |-> NoData,
      result |-> NoResult,
      move |-> NoMove,
      notes |-> <<>> ]

Active(i) == runs[i].pc # "done"
ActiveRuns == {i \in 1..Len(runs) : Active(i)}
started == [i \in 1..Len(runs) |-> runs[i].filePath]

\* --------------------------------------------------- watcher.js: the queue
\* variant: the guard without the isProcessing test
returnsEarlyWhenEmpty(busy, queue) == Len(queue) = 0

\* processQueue's early return (watcher.js 170)
processQueueReturnsEarly(busy, queue) == busy \/ Len(queue) = 0

\* variant: fileQueue.pop() in place of shift()
pop(queue) == [taken |-> queue[Len(queue)], rest |-> SubSeq(queue, 1, Len(queue) - 1)]

\* variant: the element is read and left on the queue
peek(queue) == [taken |-> Head(queue), rest |-> queue]

\* fileQueue.shift() (watcher.js 178): the element taken and the queue left
shift(queue) == [taken |-> Head(queue), rest |-> Tail(queue)]

\* variant: a path already waiting is not queued again
pushUnlessQueued(queue, filePath) ==
    IF \E k \in 1..Len(queue) : queue[k] = filePath THEN queue ELSE Append(queue, filePath)

\* fileQueue.push(filePath) (watcher.js 324)
push(queue, filePath) == Append(queue, filePath)

\* processQueue() up to its first await (watcher.js 168-184), run on the queue
\* value `queue`
processQueue(queue) ==
    IF processQueueReturnsEarly(isProcessing, queue)
    THEN /\ fileQueue' = queue
         /\ UNCHANGED <<isProcessing, runs>>
    ELSE /\ isProcessing' = TRUE
         /\ fileQueue' = shift(queue).rest
         /\ runs' = Append(runs, NewRun(shift(queue).taken))

WatchPaths == {p \in EventPaths : Accepted(p)}

\* watcher.on('add') (watcher.js 317-330).  The event is delivered because the
\* file appeared in the folder.
FileAdded(filePath) ==
    /\ IF Accepted(filePath)
       THEN /\ Len(enqueued) < MaxAdds
            /\ watchFiles' = watchFiles \cup {filePath}
            /\ enqueued' = Append(enqueued, filePath)
            /\ processQueue(push(fileQueue, filePath))
            /\ UNCHANGED immediates
       ELSE UNCHANGED <<fileQueue, isProcessing, immediates, runs, enqueued, watchFiles>>
    /\ UNCHANGED <<processedFiles, configVars, writerVars, sessionVars>>

\* the callback of setImmediate(() => processQueue()) (watcher.js 244)
RunImmediate ==
    /\ immediates > 0
    /\ immediates' = immediates - 1
    /\ processQueue(fileQueue)
    /\ UNCHANGED <<enqueued, watchFiles, processedFiles, configVars, writerVars, sessionVars>>

\* An outside actor deletes a file of the watch folder.  Only the files the
\* program will still look at are followed: those queued, and those being
\* handled up to the terminal action.
Pending(filePath) ==
    \/ \E k \in 1..Len(fileQueue) : fileQueue[k] = filePath
    \/ \E i \in ActiveRuns : runs[i].filePath = filePath /\ runs[i].pc # "notifying"

DeleteFile(filePath) ==
    /\ filePath \in watchFiles
    /\ Pending(filePath)
    /\ watchFiles' = watchFiles \ {filePath}
    /\ UNCHANGED <<fileQueue, isProcessing, immediates, runs, enqueued,
                   processedFiles, configVars, writerVars, sessionVars>>

\* ------------------------------------- fileReady: waitForStableFile's poll
TimedOutMsg == <<"Timeout waiting for file to stabilize after ", "timeoutMs", "ms">>
DeletedMsg == <<"File was deleted while waiting for it to stabilize">>
AccessErrorMsg(code) == <<"Failed to access file: ", code>>

Sizes == {1, 2}
\* what fs.statSync can do: return a size, or throw with a code
StatResults == [code : {"ok"}, size : Sizes]
               \cup [code : {"EACCES", "EBUSY", "ENOENT", "EIO"}, size : {0}]

\* variant: every successful reading counts as stable, equal or not
countsEveryReading(previousSize, stableCount, expired, exists, stat) ==
    IF expired
    THEN [outcome |-> "reject", error |-> TimedOutMsg,
          previousSize |-> previousSize, stableCount |-> stableCount]
    ELSE IF ~exists
    THEN [outcome |-> "reject", error |-> DeletedMsg,
          previousSize |-> previousSize, stableCount |-> stableCount]
    ELSE IF stat.code # "ok"
    THEN [outcome |-> IF stat.code \in {"EACCES", "EBUSY"} THEN "continue" ELSE "reject",
          error |-> IF stat.code \in {"EACCES", "EBUSY"} THEN NoMessage
                    ELSE AccessErrorMsg(stat.code),
          previousSize |-> -1, stableCount |-> 0]
    ELSE [outcome |-> IF stableCount + 1 >= stableChecks THEN "resolve" ELSE "continue",
          error |-> NoMessage,
          previousSize |-> stat.size, stableCount |-> stableCount + 1]

\* variant: the first reading, with no reading before it, counts as stable
firstReadingCounts(previousSize, stableCount, expired, exists, stat) ==
    LET keep(o, m) == [outcome |-> o, error |-> m,
                       previousSize |-> previousSize, stableCount |-> stableCount]
    IN  IF expired THEN keep("reject", TimedOutMsg)
        ELSE IF ~exists THEN keep("reject", DeletedMsg)
        ELSE IF stat.code # "ok"
             THEN IF stat.code \in {"EACCES", "EBUSY"}
                  THEN [outcome |-> "continue", error |-> NoMessage,
                        previousSize |-> -1, stableCount |-> 0]
                  ELSE keep("reject", AccessErrorMsg(stat.code))
        ELSE IF stat.size = previousSize \/ previousSize = -1
             THEN [outcome |-> IF stableCount + 1 >= stableChecks
                               THEN "resolve" ELSE "continue",
                   error |-> NoMessage,
                   previousSize |-> stat.size, stableCount |-> stableCount + 1]
             ELSE [outcome |-> "continue", error |-> NoMessage,
                   previousSize |-> stat.size, stableCount |-> 0]

\* variant: a locked file leaves the counter and the last reading as they are
keepsCountWhenLocked(previousSize, stableCount, expired, exists, stat) ==
    LET keep(o, m) == [outcome |-> o, error |-> m,
                       previousSize |-> previousSize, stableCount |-> stableCount]
    IN  IF expired THEN keep("reject", TimedOutMsg)
        ELSE IF ~exists THEN keep("reject", DeletedMsg)
        ELSE IF stat.code # "ok"
             THEN IF stat.code \in {"EACCES", "EBUSY"}
                  THEN keep("continue", NoMessage)
                  ELSE keep("reject", AccessErrorMsg(stat.code))
        ELSE IF stat.size = previousSize
             THEN [outcome |-> IF stableCount + 1 >= stableChecks
                               THEN "resolve" ELSE "continue",
                   error |-> NoMessage,
                   previousSize |-> previousSize, stableCount |-> stableCount + 1]
             ELSE [outcome |-> "continue", error |-> NoMessage,
                   previousSize |-> stat.size, stableCount |-> 0]

\* One run of the setInterval callback (part_000 32-85) on the locals
\* previousSize and stableCount.  expired is Date.now() - startTime > timeoutMs,
\* exists is fs.existsSync(filePath), stat is what fs.statSync does.
pollCallback(previousSize, stableCount, expired, exists, stat) ==
    LET keep(o, m) == [outcome |-> o, error |-> m,
                       previousSize |-> previousSize, stableCount |-> stableCount]
    IN  IF expired THEN keep("reject", TimedOutMsg)
        ELSE IF ~exists THEN keep("reject", DeletedMsg)
        ELSE IF stat.code # "ok"
             THEN IF stat.code \in {"EACCES", "EBUSY"}
                  THEN [outcome |-> "continue", error |-> NoMessage,
                        previousSize |-> -1, stableCount |-> 0]
                  ELSE keep("reject", AccessErrorMsg(stat.code))
        ELSE IF stat.size = previousSize
             THEN [outcome |-> IF stableCount + 1 >= stableChecks
                               THEN "resolve" ELSE "continue",
                   error |-> NoMessage,
                   previousSize |-> previousSize, stableCount |-> stableCount + 1]
             ELSE [outcome |-> "continue", error |-> NoMessage,
                   previousSize |-> stat.size, stableCount |-> 0]

\* ------------------------------------------ uploader: uploadFileToGrain
\* A network response as the handler reads it: the url and the request's post
\* data as sequences of tokens, whether the body parses as JSON, and the two
\* parts of data it looks at.  In the post data the tokens
\* "operationName", ":", "recording" stand for the text
\* "operationName":"recording".
NoPostData == <<>>
NoUploadInfo == [present |-> FALSE, uuid |-> "", maxUploadBytes |-> ""]
NoRecording == [present |-> FALSE, id |-> "", recordingUrl |-> "", state |-> ""]
GraphqlUrl == <<"https://api.grain.com", "/_/", "graphql">>
InitiationAck ==
    [url |-> GraphqlUrl,
     postData |-> <<"{", "operationName", ":", "recordingUploadInfo", "}">>,
     json |-> TRUE,
     uploadInfo |-> [present |-> TRUE, uuid |-> "u1", maxUploadBytes |-> "5368709120"],
     recording |-> NoRecording]
CompletionAck ==
    [url |-> GraphqlUrl,
     postData |-> <<"{", "operationName", ":", "recording", "}">>,
     json |-> TRUE,
     uploadInfo |-> NoUploadInfo,
     recording |-> [present |-> TRUE, id |-> "r1", recordingUrl |-> "url1",
                    state |-> "PROCESSING"]]
Unrelated ==
    [url |-> <<"https://cdn.grain.com", "/", "asset">>,
     postData |-> <<"{", "operationName", ":", "recording", "}">>,
     json |-> TRUE,
     uploadInfo |-> InitiationAck.uploadInfo,
     recording |-> CompletionAck.recording]
PipelinePayloads == {InitiationAck, CompletionAck, Unrelated}

\* the responses SpecUpload draws from
AckWithoutCeiling ==
    [InitiationAck EXCEPT !.uploadInfo.maxUploadBytes = ""]
AckWithoutUuid ==
    [InitiationAck EXCEPT !.uploadInfo.uuid = ""]
ForeignCompletion ==
    [CompletionAck EXCEPT !.recording.id = "r2", !.recording.recordingUrl = "url2"]
EmptyReference ==
    [CompletionAck EXCEPT !.recording.recordingUrl = ""]
NotProcessing ==
    [CompletionAck EXCEPT !.recording.state = "UPLOADING"]
NotJson ==
    [CompletionAck EXCEPT !.json = FALSE, !.uploadInfo = InitiationAck.uploadInfo]
WithoutPostData ==
    [CompletionAck EXCEPT !.postData = NoPostData,
                          !.uploadInfo = InitiationAck.uploadInfo]
UnrelatedOperation ==
    [CompletionAck EXCEPT !.postData = <<"{", "operationName", ":", "recordingList", "}">>]
IgnoredPayloads == {Unrelated, NotJson, WithoutPostData, UnrelatedOperation}
UploadPayloads == {InitiationAck, AckWithoutCeiling, AckWithoutUuid, CompletionAck,
                   ForeignCompletion, EmptyReference, NotProcessing}
                  \cup IgnoredPayloads

\* variant: the handler without the test of the url
onResponseAnyUrl(r, pl) ==
    IF ~(pl.postData # NoPostData /\ includes(pl.postData, <<"operationName">>))
    THEN r
    ELSE IF ~pl.json
    THEN r
    ELSE LET initiated == pl.uploadInfo.present /\ pl.uploadInfo.uuid # ""
             success == /\ includes(pl.postData, <<"operationName", ":", "recording">>)
                        /\ pl.recording.present
                        /\ pl.recording.recordingUrl # ""
                        /\ pl.recording.state = "PROCESSING"
         IN  [r EXCEPT !.uploadStarted = r.uploadStarted \/ initiated,
                       !.uploadSuccess = r.uploadSuccess \/ success,
                       !.recordingData =
                           IF success
                           THEN [id |-> pl.recording.id,
                                 recordingUrl |-> pl.recording.recordingUrl,
                                 state |-> pl.recording.state]
                           ELSE r.recordingData]

\* page.on('response') (part_001 347-398) on the flags it captures
onResponse(r, pl) ==
    IF ~(includes(pl.url, <<"graphql">>) \/ includes(pl.url, <<"/api/">>))
    THEN r
    ELSE IF ~(pl.postData # NoPostData /\ includes(pl.postData, <<"operationName">>))
    THEN r
    ELSE IF ~pl.json
    THEN r
    ELSE LET initiated == pl.uploadInfo.present /\ pl.uploadInfo.uuid # ""
             success == /\ includes(pl.postData, <<"operationName", ":", "recording">>)
                        /\ pl.recording.present
                        /\ pl.recording.recordingUrl # ""
                        /\ pl.recording.state = "PROCESSING"
         IN  [r EXCEPT !.uploadStarted = r.uploadStarted \/ initiated,
                       !.uploadSuccess = r.uploadSuccess \/ success,
                       !.recordingData =
                           IF success
                           THEN [id |-> pl.recording.id,
                                 recordingUrl |-> pl.recording.recordingUrl,
                                 state |-> pl.recording.state]
                           ELSE r.recordingData]

Failure(message) ==
    [ok |-> FALSE, message |-> message, recordingUrl |-> "", recordingId |-> ""]

\* processFile's mapping of what uploadFileToGrain returned (processor.js 28-46)
processFileResult(up) ==
    IF up.ok
    THEN [ok |-> TRUE,
          message |-> <<"Successfully uploaded to Grain. Recording ID: ", up.id>>,
          recordingUrl |-> up.recordingUrl, recordingId |-> up.id]
    ELSE Failure(up.message)

\* variant: processFile without its catch: an escaping exception leaves no
\* result object
processFileUncaught(errorMessage) == NoResult

\* processFile's catch (processor.js 47-54)
processFileCaught(errorMessage) == Failure(<<"Processing error: ">> \o errorMessage)

UploadFailed(errorMessage) ==
    [ok |-> FALSE, message |-> <<"Upload failed: ">> \o errorMessage, id |-> "",
     recordingUrl |-> ""]
UploadReturn(message) ==
    [ok |-> FALSE, message |-> message, id |-> "", recordingUrl |-> ""]

\* uploadFileToGrain returns `up`.  With a browser launched the finally block
\* awaits browser.close() first (part_001 591-597) and `up` is held in result
\* until then; with none, processFile's continuation runs next.  The flags the
\* response handler captured are dead once the function returns.
returning(r, up) ==
    [r EXCEPT !.result = processFileResult(up),
              !.uploadStarted = FALSE,
              !.uploadSuccess = FALSE,
              !.recordingData = NoData,
              !.pc = IF r.browser = "open" THEN "closing" ELSE "uploaded"]

\* variant: the credentials are checked before the file
validationCredentialsFirst(exists, configured) ==
    IF ~configured
    THEN UploadReturn(<<"GRAIN_EMAIL or GRAIN_PASSWORD not configured in .env file">>)
    ELSE IF ~exists
    THEN UploadReturn(<<"File does not exist: ", "filePath">>)
    ELSE [ok |-> TRUE, message |-> NoMessage, id |-> "", recordingUrl |-> ""]

\* uploadFileToGrain up to `await puppeteer.launch` (part_001 290-318): the
\* early return, if any
validation(exists, configured) ==
    IF ~exists
    THEN UploadReturn(<<"File does not exist: ", "filePath">>)
    ELSE IF ~configured
    THEN UploadReturn(<<"GRAIN_EMAIL or GRAIN_PASSWORD not configured in .env file">>)
    ELSE [ok |-> TRUE, message |-> NoMessage, id |-> "", recordingUrl |-> ""]

\* Step 1, login (part_001 400-466); a rejected login shows as a missing
\* button or a selector that never appears, which throws
Authenticate(i) ==
    /\ runs[i].pc = "authenticating"
    /\ \E loggedIn \in BOOLEAN :
          runs' = [runs EXCEPT ![i] =
             IF loggedIn
             THEN [@ EXCEPT !.pc = "submitting"]
             ELSE returning(@, UploadFailed(<<"login">>))]
    /\ UNCHANGED <<fileQueue, isProcessing, immediates, enqueued, watchFiles,
                   processedFiles, configVars, writerVars, sessionVars>>

\* Steps 2 and 3, the upload page and fileInput.uploadFile (part_001 468-489)
Submit(i) ==
    /\ runs[i].pc = "submitting"
    /\ \E submitted \in BOOLEAN :
          runs' = [runs EXCEPT ![i] =
             IF submitted
             THEN [@ EXCEPT !.pc = "awaitingInitiation"]
             ELSE returning(@, UploadFailed(
                      <<"Could not find file input element: input#recording-meeting-file">>))]
    /\ UNCHANGED <<fileQueue, isProcessing, immediates, enqueued, watchFiles,
                   processedFiles, configVars, writerVars, sessionVars>>

\* Stage 1 (part_001 491-518): the loop ends with uploadStarted set, or with
\* the initiation window used up; the screenshot taken then may throw.  The
\* response the page's handler saw during the stage is delivered with the end
\* of the loop.
awaitInitiation(r, shot) ==
    IF r.uploadStarted
    THEN [r EXCEPT !.pc = "awaitingCompletion"]
    ELSE IF shot
    THEN returning(r, UploadReturn(<<"Upload initiation timeout: ">>))
    ELSE returning(r, UploadFailed(<<"screenshot">>))

AwaitInitiation(i) ==
    /\ runs[i].pc = "awaitingInitiation"
    /\ \E pl \in PipelinePayloads, shot \in BOOLEAN :
          runs' = [runs EXCEPT ![i] = awaitInitiation(onResponse(@, pl), shot)]
    /\ UNCHANGED <<fileQueue, isProcessing, immediates, enqueued, watchFiles,
                   processedFiles, configVars, writerVars, sessionVars>>

\* Stage 2 (part_001 520-561): the loop ends with uploadSuccess set, or with
\* the completion window used up
awaitCompletion(r, shot) ==
    IF r.uploadSuccess
    THEN returning(r, [ok |-> TRUE, id |-> r.recordingData.id,
                       recordingUrl |-> r.recordingData.recordingUrl,
                       message |-> <<"Successfully uploaded file. Recording ID: ",
                                     r.recordingData.id>>])
    ELSE IF shot
    THEN returning(r, UploadReturn(<<"Upload completion timeout: ">>))
    ELSE returning(r, UploadFailed(<<"screenshot">>))

AwaitCompletion(i) ==
    /\ runs[i].pc = "awaitingCompletion"
    /\ \E pl \in PipelinePayloads, shot \in BOOLEAN :
          runs' = [runs EXCEPT ![i] = awaitCompletion(onResponse(@, pl), shot)]
    /\ UNCHANGED <<fileQueue, isProcessing, immediates, enqueued, watchFiles,
                   processedFiles, configVars, writerVars, sessionVars>>

\* --------------------------------------------- fileHandler: moveToProcessed
existsIn(folder, path) == \E e \in folder : e.path = path
written(folder, path, from, complete) ==
    {e \in folder : e.path # path} \cup {[path |-> path, from |-> from, complete |-> complete]}
removed(folder, path) == {e \in folder : e.path # path}

StampOf(k) == CASE k = 1 -> "T1" [] k = 2 -> "T2" [] OTHER -> "T3"

\* getUniqueDestPath (fileHandler.js 53-64); stamp is getTimestampSuffix()
getUniqueDestPath(destPath, folder, stamp) ==
    IF ~existsIn(folder, destPath)
    THEN destPath
    ELSE LET base == basename(destPath)
             ext == extname(destPath)
             dir == SubSeq(destPath, 1, Len(destPath) - Len(base) - 1)
             nameWithoutExt == SubSeq(base, 1, Len(base) - Len(ext))
         IN  dir \o <<SEP>> \o nameWithoutExt \o <<"-", stamp>> \o ext

\* copyAndVerify (fileHandler.js 72-88).  copy is what fs.copyFileSync does:
\* "ok", "short" (returns, sizes differ), "partial" (throws, leaving a partial
\* file) or "none" (throws, leaving nothing).
copyAndVerify(sourcePath, destPath, folder, copy) ==
    CASE copy = "ok" ->
           [threw |-> FALSE, error |-> NoMessage,
            folder |-> written(folder, destPath, sourcePath, TRUE)]
      [] copy = "short" ->
           [threw |-> TRUE,
            error |-> <<"Copy failed: ",
                        "File size mismatch after copy - copy verification failed">>,
            folder |-> removed(folder, destPath)]
      [] copy = "partial" ->
           [threw |-> TRUE, error |-> <<"Copy failed: ", "EIO">>,
            folder |-> written(folder, destPath, sourcePath, FALSE)]
      [] OTHER ->
           [threw |-> TRUE, error |-> <<"Copy failed: ", "EIO">>, folder |-> folder]

\* the outer catch of moveToProcessed (fileHandler.js 151-162)
FormattedPrefixes == {"Source file does not exist", "No read permission for source file",
                      "File is locked or in use by another process",
                      "Permission denied - cannot write to Processed directory",
                      "Move failed: ", "File copied but original could not be deleted: "}
rethrown(message) ==
    IF Head(message) \in FormattedPrefixes
    THEN message
    ELSE <<"Failed to move file to Processed: ">> \o message

\* what the file system does during one call; a part that is never reached
\* (the copy without EXDEV, the unlink without a verified copy) is left at ok
MoveInputs ==
    {in \in [readable : BOOLEAN, stamp : 1..MaxStamp,
             rename : {"ok", "EXDEV", "EBUSY", "EPERM", "EACCES", "EIO"},
             copy : {"ok", "short", "partial", "none"}, unlink : BOOLEAN] :
        /\ ~in.readable => in.rename = "ok"
        /\ in.rename # "EXDEV" => in.copy = "ok"
        /\ (in.rename # "EXDEV" \/ in.copy # "ok") => in.unlink}
NoMoveInput == [readable |-> TRUE, stamp |-> 1, rename |-> "ok", copy |-> "ok",
                unlink |-> TRUE]

\* moveToProcessed (fileHandler.js 98-163) on the two folders.  in holds what
\* the file system does: accessSync, the clock, renameSync, copyFileSync and
\* unlinkSync of the original.
moveToProcessed(filePath, watch, folder, in) ==
    LET thrown(message, w, f, gone) ==
            [threw |-> TRUE, error |-> rethrown(message), dest |-> <<>>,
             watch |-> w, folder |-> f, srcRemoved |-> gone]
        destPath == getUniqueDestPath(PROCESSED_FOLDER \o <<SEP>> \o basename(filePath),
                                      folder, StampOf(in.stamp))
        cp == copyAndVerify(filePath, destPath, folder, in.copy)
    IN  IF filePath \notin watch
        THEN thrown(<<"Source file does not exist">>, watch, folder, FALSE)
        ELSE IF ~in.readable
        THEN thrown(<<"No read permission for source file">>, watch, folder, FALSE)
        ELSE IF in.rename = "ok"
        THEN [threw |-> FALSE, error |-> NoMessage, dest |-> destPath,
              watch |-> watch \ {filePath},
              folder |-> written(folder, destPath, filePath, TRUE),
              srcRemoved |-> TRUE]
        ELSE IF in.rename = "EXDEV"
        THEN IF cp.threw
             THEN thrown(cp.error, watch, cp.folder, FALSE)
             ELSE IF ~in.unlink
             THEN thrown(<<"File copied but original could not be deleted: ", "EPERM">>,
                         watch, cp.folder, FALSE)
             ELSE [threw |-> FALSE, error |-> NoMessage, dest |-> destPath,
                   watch |-> watch \ {filePath}, folder |-> cp.folder,
                   srcRemoved |-> TRUE]
        ELSE IF in.rename \in {"EBUSY", "EPERM"}
        THEN thrown(<<"File is locked or in use by another process">>, watch, folder, FALSE)
        ELSE IF in.rename = "EACCES"
        THEN thrown(<<"Permission denied - cannot write to Processed directory">>,
                    watch, folder, FALSE)
        ELSE thrown(<<"Move failed: ", in.rename>>, watch, folder, FALSE)

\* ------------------------------------------------------ notifier (index.js)
\* createTransporter (index.js 27-46): null without configuration or when
\* nodemailer.createTransport throws
createTransporter(configured, created) == configured /\ created

\* variants: a failed delivery is thrown to the caller instead of returning false
sendSuccessEmailThrows(configured, created, delivered) ==
    IF ~(configured /\ created) THEN "false"
    ELSE IF delivered THEN "true" ELSE "throw"
sendErrorEmailThrows(configured, created, delivered) ==
    IF ~(configured /\ created) THEN "false"
    ELSE IF delivered THEN "true" ELSE "throw"

\* variant: without a transporter the call throws instead of returning false
sendErrorEmailThrowsUnconfigured(configured, created, delivered) ==
    IF ~(configured /\ created) THEN "throw"
    ELSE IF delivered THEN "true" ELSE "false"

\* sendSuccessEmail (index.js 57-146): what the call gives back, where
\* delivered says whether transporter.sendMail resolved
sendSuccessEmail(configured, created, delivered) ==
    IF ~createTransporter(configured, created) THEN "false"
    ELSE IF delivered THEN "true" ELSE "false"

\* sendErrorEmail (index.js 156-267)
sendErrorEmail(configured, created, delivered) ==
    IF ~createTransporter(configured, created) THEN "false"
    ELSE IF delivered THEN "true" ELSE "false"

\* a call of the notifier made by processQueue at `site`, not yet returned
successNote(result) ==
    [fn |-> "sendSuccessEmail", site |-> "success", error |-> NoMessage,
     details |-> result.message, recordingUrl |-> result.recordingUrl,
     returned |-> "pending"]
\* variant: every failure is reported as a failed upload
errorNoteAsUpload(site, error) ==
    [fn |-> "sendErrorEmail", site |-> site, error |-> <<"Processing failed: ">>,
     details |-> NoMessage, recordingUrl |-> "", returned |-> "pending"]
errorNote(site, error) ==
    [fn |-> "sendErrorEmail", site |-> site, error |-> error,
     details |-> NoMessage, recordingUrl |-> "", returned |-> "pending"]

\* ------------------------------- watcher.js: processQueue after the upload
\* variant: the log of the outcome follows what the notifier returned
FinishedAsNotified(r) ==
    [filePath |-> r.filePath,
     pc |-> "done",
     calls |-> Len(r.notes),
     outcome |-> IF r.notes[Len(r.notes)].returned = "true"
                 THEN "success" ELSE "failure"]

\* What is kept of an invocation once it has finished, as the log of its
\* outcome: the file, the number of notifier calls it made and the kind of
\* the last one.  Its locals are read while the last call is pending
\* (pc = "notifying").
Finished(r) ==
    [filePath |-> r.filePath,
     pc |-> "done",
     calls |-> Len(r.notes),
     outcome |-> IF r.notes[Len(r.notes)].fn = "sendSuccessEmail"
                 THEN "success" ELSE "failure"]

\* variant: the file is relocated whatever the result
relocatesAlways(result) == TRUE

\* if (result.ok) (watcher.js 192)
relocates(result) == result.ok

\* variant: finally schedules the next processQueue only for two or more
\* waiting paths
resumesWhenSeveral(queue) == Len(queue) > 1

\* variant: finally does not schedule the next processQueue
neverResumes(queue) == FALSE

\* if (fileQueue.length > 0) setImmediate(...) in finally (watcher.js 242-245)
resumes(queue) == Len(queue) > 0

\* the outer catch of processQueue (watcher.js 228-236), entered when
\* waitForStableFile rejects
caughtOuter(r, errorMessage) ==
    [r EXCEPT !.notes = Append(@, errorNote("outerCatch",
                            <<"Error during file handling: ">> \o errorMessage)),
              !.pc = "notifying"]

\* variant: the success notification is sent before the file is relocated
terminalActionNotifiesFirst(r, watch, folder, in) ==
    IF relocates(r.result)
    THEN [run |-> [r EXCEPT !.notes = Append(@, successNote(r.result)),
                            !.pc = "notifying"],
          watch |-> watch, folder |-> folder]
    ELSE [run |-> [r EXCEPT
             !.notes = Append(@, errorNote("else",
                          <<"Processing failed: ">> \o r.result.message)),
             !.pc = "notifying"],
          watch |-> watch, folder |-> folder]

\* continuation of `await processFile(filePath)` up to the notifier call
\* (watcher.js 189-227): the run and the two folders afterwards
terminalAction(r, watch, folder, in) ==
    LET mv == moveToProcessed(r.filePath, watch, folder, in)
    IN  IF relocates(r.result)
        THEN [run |-> [r EXCEPT
                 !.move = [attempted |-> TRUE, threw |-> mv.threw, dest |-> mv.dest,
                           srcRemoved |-> mv.srcRemoved, error |-> mv.error],
                 !.notes = Append(@,
                     IF mv.threw
                     THEN errorNote("moveCatch",
                              <<"Failed to move file to Processed folder: ">> \o mv.error)
                     ELSE successNote(r.result)),
                 !.pc = "notifying"],
              watch |-> mv.watch, folder |-> mv.folder]
        ELSE [run |-> [r EXCEPT
                 !.notes = Append(@, errorNote("else",
                              <<"Processing failed: ">> \o r.result.message)),
                 !.pc = "notifying"],
              watch |-> watch, folder |-> folder]

\* processFile has returned r.result with the watch folder holding `watch`:
\* the terminal action runs in the same turn of the event loop
SettleIn(i, r, watch) ==
    \E in \in IF relocates(r.result) THEN MoveInputs ELSE {NoMoveInput} :
        LET t == terminalAction(r, watch, processedFiles, in)
        IN  /\ runs' = [runs EXCEPT ![i] = t.run]
            /\ watchFiles' = t.watch
            /\ processedFiles' = t.folder

Settle(i, r) == SettleIn(i, r, watchFiles)

\* the run after a poll that did not settle the promise
polled(r, t) ==
    [r EXCEPT !.previousSize = t.previousSize,
              !.stableCount = t.stableCount,
              !.polls = r.polls + 1]

\* the run once the promise has settled: the interval is cleared and the
\* closure's previousSize and start time are dead; stableCount is kept as the
\* record of how the wait ended
settled(r, t) ==
    [r EXCEPT !.previousSize = -1,
              !.stableCount = t.stableCount,
              !.polls = 0,
              !.waitError = t.error]

\* A timer tick of waitForStableFile (part_000 32-85) and, when it settles the
\* promise, the continuation of `await waitForStableFile(filePath)` in the same
\* turn: the outer catch (watcher.js 228-236), or processFile and
\* uploadFileToGrain up to `await puppeteer.launch` (watcher.js 185-189,
\* part_001 290-318).  The clock reading is an input, forced to have expired
\* after MaxPolls polls; a file seen by existsSync may be gone when statSync
\* runs (ENOENT), and a file whose size was read may be gone when
\* uploadFileToGrain looks for it (part_001 300).
PollTick(i) ==
    /\ runs[i].pc = "stabilizing"
    /\ \E expired \in BOOLEAN, stat \in StatResults :
          LET r == runs[i]
              exists == r.filePath \in watchFiles
              t == pollCallback(r.previousSize, r.stableCount, expired, exists, stat)
              vanished == ~expired /\ exists /\ stat.code = "ENOENT"
          IN  /\ r.polls >= MaxPolls => expired
              /\ (expired \/ ~exists) => stat = [code |-> "ok", size |-> 1]
              /\ CASE t.outcome = "continue" ->
                        /\ runs' = [runs EXCEPT ![i] = polled(r, t)]
                        /\ UNCHANGED <<watchFiles, processedFiles>>
                   [] t.outcome = "reject" ->
                        /\ runs' = [runs EXCEPT ![i] = caughtOuter(settled(r, t), t.error)]
                        /\ watchFiles' = IF vanished THEN watchFiles \ {r.filePath}
                                         ELSE watchFiles
                        /\ UNCHANGED processedFiles
                   [] OTHER ->
                        \E gone \in BOOLEAN :
                           LET early == validation(exists /\ ~gone, grainConfigured)
                           IN  IF early.ok
                               THEN /\ runs' = [runs EXCEPT ![i] =
                                            [settled(r, t) EXCEPT !.pc = "launching"]]
                                    /\ UNCHANGED <<watchFiles, processedFiles>>
                               ELSE SettleIn(i, returning(settled(r, t), early),
                                             IF gone THEN watchFiles \ {r.filePath}
                                             ELSE watchFiles)
    /\ UNCHANGED <<fileQueue, isProcessing, immediates, enqueued, configVars, writerVars, sessionVars>>

\* puppeteer.launch settles; newPage, setUserAgent, page.on (part_001 318-398).
\* When it throws no browser is held and uploadFileToGrain's catch returns.
Launch(i) ==
    /\ runs[i].pc = "launching"
    /\ \E launched \in BOOLEAN :
          IF launched
          THEN /\ runs' = [runs EXCEPT ![i] =
                              [@ EXCEPT !.browser = "open", !.pc = "authenticating"]]
               /\ UNCHANGED <<watchFiles, processedFiles>>
          ELSE Settle(i, returning(runs[i], UploadFailed(<<"launch">>)))
    /\ UNCHANGED <<fileQueue, isProcessing, immediates, enqueued, configVars, writerVars, sessionVars>>

\* variant: finally returns without closing the browser
closeBrowserSkipped(r, closed) == r

\* finally { await browser.close() } (part_001 591-597) settles.  When close
\* throws, the exception replaces the value being returned and processFile
\* catches it (processor.js 47-54).
closeBrowser(r, closed) ==
    [r EXCEPT !.browser = IF closed THEN "closed" ELSE "open",
              !.result = IF closed THEN @ ELSE processFileCaught(<<"close">>)]

CloseBrowser(i) ==
    /\ runs[i].pc = "closing"
    /\ \E closed \in BOOLEAN :
          Settle(i, closeBrowser(runs[i], closed))
    /\ UNCHANGED <<fileQueue, isProcessing, immediates, enqueued, configVars, writerVars, sessionVars>>

\* the run once its pending notifier call has given `outcome`: the catch
\* clause around the call site makes another call, or the invocation ends
\* (watcher.js 208-246)
afterNotifier(r, outcome) ==
    LET n == Len(r.notes)
        note == r.notes[n]
        back == [r EXCEPT !.notes[n].returned = outcome]
        caught == IF note.site = "success"
                  THEN errorNote("moveCatch",
                           <<"Failed to move file to Processed folder: ", "notifier">>)
                  ELSE errorNote("outerCatch",
                           <<"Error during file handling: ", "notifier">>)
    IN  IF outcome = "throw" /\ note.site # "outerCatch"
        THEN [back EXCEPT !.notes = Append(@, caught)]
        ELSE Finished(back)

\* what the pending call of r gives back (index.js 57-146, 156-267)
notifierOutcome(r, configured, created, delivered) ==
    IF r.notes[Len(r.notes)].fn = "sendSuccessEmail"
    THEN sendSuccessEmail(configured, created, delivered)
    ELSE sendErrorEmail(configured, created, delivered)

\* The awaited notifier call settles (watcher.js 201, 212, 222, 232); whether
\* email is configured (config.EMAIL_USER, config.EMAIL_PASSWORD) is read by
\* each call.  A value ends the try statement and the finally block runs (watcher.js 237-246); an
\* exception goes to the catch clause around the call site, which calls
\* sendErrorEmail, or, from the outer catch, straight to finally.
NotifierReturns(i) ==
    /\ runs[i].pc = "notifying"
    /\ \E configured \in BOOLEAN, created \in BOOLEAN, delivered \in BOOLEAN :
          LET r == runs[i]
              outcome == notifierOutcome(r, configured, created, delivered)
              after == afterNotifier(r, outcome)
          IN  /\ ~configured => created
              /\ ~createTransporter(configured, created) => delivered
              /\ runs' = [runs EXCEPT ![i] = after]
              /\ IF after.pc = "notifying"
                 THEN UNCHANGED <<isProcessing, immediates>>
                 ELSE /\ isProcessing' = FALSE
                      /\ immediates' = IF resumes(fileQueue)
                                       THEN immediates + 1 ELSE immediates
    /\ UNCHANGED <<fileQueue, enqueued, watchFiles, processedFiles, configVars,
                   writerVars, sessionVars>>

\* ------------------------------------------------------------ specification
Init ==
    /\ fileQueue = <<>>
    /\ isProcessing = FALSE
    /\ immediates = 0
    /\ runs = <<>>
    /\ enqueued = <<>>
    /\ watchFiles = {}
    /\ processedFiles = {}
    /\ grainConfigured \in BOOLEAN
    /\ SUPPORTED_EXTENSIONS = configuredExtensions(<<>>)
    /\ now = 0
    /\ fileSize = 0
    /\ writerOn = FALSE
    /\ elapsedTime = 0
    /\ observed = NoObservation

Next ==
    \/ \E p \in EventPaths : FileAdded(p)
    \/ RunImmediate
    \/ \E p \in watchFiles : DeleteFile(p)
    \/ \E i \in 1..Len(runs) : PollTick(i)
    \/ \E i \in 1..Len(runs) : Launch(i)
    \/ \E i \in 1..Len(runs) : Authenticate(i)
    \/ \E i \in 1..Len(runs) : Submit(i)
    \/ \E i \in 1..Len(runs) : AwaitInitiation(i)
    \/ \E i \in 1..Len(runs) : AwaitCompletion(i)
    \/ \E i \in 1..Len(runs) : CloseBrowser(i)
    \/ \E i \in 1..Len(runs) : NotifierReturns(i)

Spec == Init /\ [][Next]_vars

\* ------------------ SpecStartup: the process starts on a non-empty folder
\* chokidar.watch(..., { ignoreInitial: true }) (watcher.js 305)
ignoreInitial == TRUE

\* the 'add' events of chokidar's initial scan of the files already present
initialAdds(present) == IF ignoreInitial THEN <<>> ELSE present

\* startWatcher has returned and 'ready' has fired (watcher.js 272-347) in a
\* folder where a.mp3, left by an earlier run of the process, is present and
\* complete.  The handler has run for each event of the initial scan; the
\* first one started processQueue.
InitStartup ==
    LET initial == initialAdds(<<A_MP3>>)
    IN  /\ watchFiles = {A_MP3}
        /\ enqueued = initial
        /\ fileQueue = IF initial = <<>> THEN <<>> ELSE Tail(initial)
        /\ isProcessing = (initial # <<>>)
        /\ runs = IF initial = <<>> THEN <<>> ELSE <<NewRun(Head(initial))>>
        /\ immediates = 0
        /\ processedFiles = {}
        /\ grainConfigured \in BOOLEAN
        /\ SUPPORTED_EXTENSIONS = configuredExtensions(<<>>)
        /\ now = 0
        /\ fileSize = 0
        /\ writerOn = FALSE
        /\ elapsedTime = 0
        /\ observed = NoObservation

SpecStartup == InitStartup /\ [][Next]_vars

\* ------------------------------- SpecWatch: the 'add' handler under a
\* configured allow-list
C_WAV == WATCH_FOLDER \o <<"/", "c", ".", "W", "A", "V">>
AddPaths == EventPaths \cup {C_WAV, P_NAMED}

\* the module has been loaded with some value of SUPPORTED_EXTENSIONS in the
\* environment (part_002 57-60, watcher.js 156-162)
InitWatch ==
    /\ fileQueue = <<>>
    /\ isProcessing = FALSE
    /\ immediates = 0
    /\ runs = <<>>
    /\ enqueued = <<>>
    /\ watchFiles = {}
    /\ processedFiles = {}
    /\ grainConfigured = TRUE
    /\ SUPPORTED_EXTENSIONS \in {configuredExtensions(env) : env \in EnvExtensions}
    /\ now = 0
    /\ fileSize = 0
    /\ writerOn = FALSE
    /\ elapsedTime = 0
    /\ observed = NoObservation

NextWatch ==
    \/ \E p \in AddPaths : FileAdded(p)
    \/ \E p \in watchFiles : DeleteFile(p)

SpecWatch == InitWatch /\ [][NextWatch]_vars

\* The event loop runs every callback that is ready: timers, settled promises'
\* continuations and setImmediate callbacks.  Events of the environment
\* (files added or deleted) are not owed.
ProgramStep ==
    \/ RunImmediate
    \/ \E i \in 1..Len(runs) :
          \/ PollTick(i)
          \/ Launch(i)
          \/ Authenticate(i)
          \/ Submit(i)
          \/ AwaitInitiation(i)
          \/ AwaitCompletion(i)
          \/ CloseBrowser(i)
          \/ NotifierReturns(i)

FairSpec == Spec /\ WF_vars(ProgramStep)

\* ---------------------------------------- SpecWriter: the synthetic writer
\* variant: the callback without the test of the elapsed time
neverTimedOut(elapsed) == FALSE

\* Date.now() - startTime > timeoutMs (part_000 35)
timedOut(elapsed) == elapsed > timeoutMs

\* processQueue has taken a.mp3 and called waitForStableFile (watcher.js
\* 175-184, part_000 27-29); the writer is appending to the file
InitWriter ==
    /\ fileQueue = <<>>
    /\ isProcessing = TRUE
    /\ immediates = 0
    /\ runs = <<NewRun(A_MP3)>>
    /\ enqueued = <<A_MP3>>
    /\ watchFiles = {A_MP3}
    /\ processedFiles = {}
    /\ grainConfigured = TRUE
    /\ SUPPORTED_EXTENSIONS = configuredExtensions(<<>>)
    /\ now = 0
    /\ fileSize \in {0, 1}
    /\ writerOn = TRUE
    /\ elapsedTime = 0
    /\ observed = NoObservation

\* the writer finishes the file; a writer still on after MaxWriterStop steps
\* goes on for as long as the wait lasts
WriterStops ==
    /\ writerOn
    /\ now <= MaxWriterStop * ClockStepMs
    /\ writerOn' = FALSE
    /\ UNCHANGED <<fileQueue, isProcessing, immediates, runs, enqueued, watchFiles,
                   processedFiles, configVars, now, fileSize, sessionVars>>

\* The clock advances by ClockStepMs.  The writer, while on, appends at every
\* multiple of WriterPeriodMs; the setInterval callback of waitForStableFile
\* (part_000 32-85) runs at every multiple of intervalMs, before or after a
\* write due at the same instant.  statSync returns the size, finds the file
\* locked (EBUSY), or finds it deleted since existsSync (ENOENT).
ClockTick ==
    /\ runs[1].pc = "stabilizing"
    /\ now' = now + ClockStepMs
    /\ \E pollFirst \in BOOLEAN, code \in {"ok", "EBUSY", "ENOENT"} :
          LET r == runs[1]
              writes == writerOn /\ now' % WriterPeriodMs = 0
              due == now' % intervalMs = 0
              exists == r.filePath \in watchFiles
              expired == timedOut(now')
              seen == IF pollFirst THEN fileSize ELSE fileSize'
              stat == [code |-> code, size |-> IF code = "ok" THEN seen ELSE 0]
              t == pollCallback(r.previousSize, r.stableCount, expired, exists, stat)
              vanished == ~expired /\ exists /\ code = "ENOENT"
          IN  /\ fileSize' = IF writes THEN fileSize + 1 ELSE fileSize
              /\ (~due \/ ~writes) => pollFirst
              /\ (~due \/ expired \/ ~exists) => code = "ok"
              /\ IF ~due
                 THEN UNCHANGED <<runs, watchFiles>>
                 ELSE /\ runs' = [runs EXCEPT ![1] =
                            CASE t.outcome = "continue" -> polled(r, t)
                              [] t.outcome = "reject" -> caughtOuter(settled(r, t), t.error)
                              [] OTHER -> [settled(r, t) EXCEPT !.pc = "launching"]]
                      /\ watchFiles' = IF vanished THEN watchFiles \ {r.filePath}
                                       ELSE watchFiles
    /\ UNCHANGED <<fileQueue, isProcessing, immediates, enqueued, processedFiles,
                   configVars, writerOn, sessionVars>>

NextWriter ==
    \/ WriterStops
    \/ ClockTick
    \/ DeleteFile(A_MP3)

SpecWriter == InitWriter /\ [][NextWriter]_vars

\* setInterval fires for as long as the interval is not cleared
FairSpecWriter == SpecWriter /\ WF_vars(ClockTick)

\* ------------------------------------------ SpecUpload: one upload session
\* while (!uploadStarted && elapsedTime < initiationTimeout) (part_001 498)
initiationLoops(r, elapsed) == ~r.uploadStarted /\ elapsed < initiationTimeout

\* while (!uploadSuccess && elapsedTime < completionTimeout) (part_001 526)
completionLoops(r, elapsed) == ~r.uploadSuccess /\ elapsed < completionTimeout

\* control at the head of the stage 2 loop with elapsedTime = elapsed: the
\* session sleeps again, or leaves the loop and returns (part_001 526-561)
atCompletionLoop(r, elapsed, shot) ==
    IF completionLoops(r, elapsed)
    THEN [run |-> [r EXCEPT !.pc = "awaitingCompletion"], elapsedTime |-> elapsed,
          passed |-> <<"AwaitingCompletion">>]
    ELSE [run |-> awaitCompletion(r, shot), elapsedTime |-> elapsed,
          passed |-> <<"AwaitingCompletion", "Terminal">>]

\* variant: stage 1 returns the success itself when the success flag is
\* already set, without entering stage 2
atInitiationLoopReturnsSuccess(r, elapsed, shot) ==
    IF r.uploadSuccess
    THEN [run |-> awaitCompletion(r, shot), elapsedTime |-> elapsed,
          passed |-> <<"AwaitingInitiation", "Terminal">>]
    ELSE IF initiationLoops(r, elapsed)
    THEN [run |-> [r EXCEPT !.pc = "awaitingInitiation"], elapsedTime |-> elapsed,
          passed |-> <<"AwaitingInitiation">>]
    ELSE IF r.uploadStarted
    THEN [atCompletionLoop(r, 0, shot) EXCEPT !.passed = <<"AwaitingInitiation">> \o @]
    ELSE [run |-> awaitInitiation(r, shot), elapsedTime |-> elapsed,
          passed |-> <<"AwaitingInitiation", "Terminal">>]

\* control at the head of the stage 1 loop: the session sleeps again, or
\* leaves the loop, and then returns the timeout or resets elapsedTime and
\* enters stage 2 in the same turn (part_001 498-526)
atInitiationLoop(r, elapsed, shot) ==
    IF initiationLoops(r, elapsed)
    THEN [run |-> [r EXCEPT !.pc = "awaitingInitiation"], elapsedTime |-> elapsed,
          passed |-> <<"AwaitingInitiation">>]
    ELSE IF r.uploadStarted
    THEN [atCompletionLoop(r, 0, shot) EXCEPT !.passed = <<"AwaitingInitiation">> \o @]
    ELSE [run |-> awaitInitiation(r, shot), elapsedTime |-> elapsed,
          passed |-> <<"AwaitingInitiation", "Terminal">>]

\* the history of stages once control has passed through `passed`; a stage
\* control is already in is not entered again
enters(obs, passed) ==
    LET fresh == IF passed # <<>> /\ Head(passed) = obs.stages[Len(obs.stages)]
                 THEN Tail(passed) ELSE passed
    IN  [obs EXCEPT !.stages = @ \o fresh]

\* an initiation acknowledgment with a transfer identifier and a size ceiling
WellFormedAck(pl) ==
    /\ pl.uploadInfo.present
    /\ pl.uploadInfo.uuid # ""
    /\ pl.uploadInfo.maxUploadBytes # ""

\* the history after the handler has run on pl, taking r to after: the kind
\* of the first acknowledgment and the stage it came in, the first completion
\* and whether initiation had been acknowledged by then
observes(obs, r, after, pl) ==
    [obs EXCEPT
        !.ack = IF ~r.uploadStarted /\ after.uploadStarted
                THEN (IF WellFormedAck(pl) THEN "wellFormed" ELSE "malformed")
                ELSE @,
        !.first = IF ~r.uploadSuccess /\ after.uploadSuccess
                  THEN after.recordingData ELSE @,
        !.ackIn = IF ~r.uploadStarted /\ after.uploadStarted
                  THEN obs.stages[Len(obs.stages)] ELSE @,
        !.firstAcked = IF ~r.uploadSuccess /\ after.uploadSuccess
                       THEN after.uploadStarted ELSE @,
        !.ignored = @ \/ pl \in IgnoredPayloads]

\* processFile has called uploadFileToGrain(filePath), which ran up to its
\* first await or returned early (part_001 290-318)
InitUpload ==
    /\ fileQueue = <<>>
    /\ isProcessing = TRUE
    /\ immediates = 0
    /\ enqueued = <<A_MP3>>
    /\ watchFiles \in {{A_MP3}, {}}
    /\ processedFiles = {}
    /\ grainConfigured \in BOOLEAN
    /\ SUPPORTED_EXTENSIONS = configuredExtensions(<<>>)
    /\ now = 0
    /\ fileSize = 0
    /\ writerOn = FALSE
    /\ elapsedTime = 0
    /\ LET r == [NewRun(A_MP3) EXCEPT !.stableCount = stableChecks]
           early == validation(A_MP3 \in watchFiles, grainConfigured)
       IN  /\ runs = << IF early.ok THEN [r EXCEPT !.pc = "launching"]
                        ELSE returning(r, early) >>
           /\ observed = IF early.ok THEN NoObservation
                         ELSE enters(NoObservation, <<"Terminal">>)

\* puppeteer.launch settles; newPage, setUserAgent, page.on (part_001 318-398)
SessionLaunch ==
    /\ runs[1].pc = "launching"
    /\ \E launched \in BOOLEAN :
          /\ runs' = [runs EXCEPT ![1] =
             IF launched
             THEN [@ EXCEPT !.browser = "open", !.pc = "authenticating"]
             ELSE returning(@, UploadFailed(<<"launch">>))]
          /\ observed' = enters(observed, IF launched THEN <<"Authenticating">>
                                          ELSE <<"Terminal">>)
    /\ UNCHANGED <<fileQueue, isProcessing, immediates, enqueued, watchFiles,
                   processedFiles, configVars, writerVars, elapsedTime>>

\* Step 1, login (part_001 400-466).  The code throws when the Google button
\* or a credential field does not appear; when the service refuses the
\* password the code sees nothing and goes on.
LoginOutcomes == {"ok", "rejected", "noButton", "noEmailField", "noPasswordField"}
loginError(outcome) ==
    CASE outcome = "noButton" -> <<"Could not find \"Sign in with Google\" button">>
      [] outcome = "noEmailField" -> <<"Waiting for selector failed: ", "input[type=email]">>
      [] OTHER -> <<"Waiting for selector failed: ", "input[type=password]">>

SessionLogin ==
    /\ runs[1].pc = "authenticating"
    /\ \E outcome \in LoginOutcomes :
          /\ runs' = [runs EXCEPT ![1] =
                IF outcome \in {"ok", "rejected"}
                THEN [@ EXCEPT !.pc = "submitting"]
                ELSE returning(@, UploadFailed(loginError(outcome)))]
          /\ observed' = enters([observed EXCEPT !.rejected = (outcome = "rejected")],
                                IF outcome \in {"ok", "rejected"}
                                THEN <<"Submitting">> ELSE <<"Terminal">>)
    /\ UNCHANGED <<fileQueue, isProcessing, immediates, enqueued, watchFiles,
                   processedFiles, configVars, writerVars, elapsedTime>>

\* Steps 2 and 3 (part_001 468-489) and the head of the stage 1 loop
\* (part_001 494-498).  Without a login the upload page has no file input.
MissingInputMsg == <<"Could not find file input element: input#recording-meeting-file">>
SessionSubmit ==
    /\ runs[1].pc = "submitting"
    /\ \E input \in {"found", "missing", "gotoFailed"}, shot \in BOOLEAN :
          LET r == runs[1]
              next == atInitiationLoop(r, 0, shot)
          IN  /\ observed.rejected => input # "found"
              /\ input # "found" => shot
              /\ IF input = "found"
                 THEN /\ runs' = [runs EXCEPT ![1] = next.run]
                      /\ elapsedTime' = next.elapsedTime
                      /\ observed' = enters(observed, next.passed)
                 ELSE /\ runs' = [runs EXCEPT ![1] = returning(r, UploadFailed(
                                     IF input = "missing" THEN MissingInputMsg
                                     ELSE <<"Navigation timeout">>))]
                      /\ observed' = enters(observed, <<"Terminal">>)
                      /\ UNCHANGED elapsedTime
    /\ UNCHANGED <<fileQueue, isProcessing, immediates, enqueued, watchFiles,
                   processedFiles, configVars, writerVars>>

\* A response reaches page.on('response') (part_001 347-398) while the
\* session is between page.on and its return.
SessionResponse(pl) ==
    /\ runs[1].pc \in {"authenticating", "submitting", "awaitingInitiation",
                       "awaitingCompletion"}
    /\ runs' = [runs EXCEPT ![1] = onResponse(@, pl)]
    /\ observed' = observes(observed, runs[1], onResponse(runs[1], pl), pl)
    /\ UNCHANGED <<fileQueue, isProcessing, immediates, enqueued, watchFiles,
                   processedFiles, configVars, writerVars, elapsedTime>>

\* variant: the loops do not count the time they slept
advanceNever(elapsed) == elapsed

\* elapsedTime += pollInterval (part_001 500, 528)
advance(elapsed) == elapsed + pollInterval

\* The setTimeout(resolve, pollInterval) of a loop fires (part_001 499-500,
\* 527-528): elapsedTime grows and the loop condition is read again.
SessionWake ==
    /\ runs[1].pc \in {"awaitingInitiation", "awaitingCompletion"}
    /\ \E shot \in BOOLEAN :
          LET r == runs[1]
              elapsed == advance(elapsedTime)
              next == IF r.pc = "awaitingInitiation"
                      THEN atInitiationLoop(r, elapsed, shot)
                      ELSE atCompletionLoop(r, elapsed, shot)
          IN  /\ next.run.pc \in {"awaitingInitiation", "awaitingCompletion"} => shot
              /\ next.run.result.ok => shot
              /\ runs' = [runs EXCEPT ![1] = next.run]
              /\ elapsedTime' = next.elapsedTime
              /\ observed' = enters(observed, next.passed)
    /\ UNCHANGED <<fileQueue, isProcessing, immediates, enqueued, watchFiles,
                   processedFiles, configVars, writerVars>>

\* finally { await browser.close() } settles (part_001 591-597) and control
\* is back in processFile
SessionClose ==
    /\ runs[1].pc = "closing"
    /\ \E closed \in BOOLEAN :
          runs' = [runs EXCEPT ![1] = [closeBrowser(@, closed) EXCEPT !.pc = "uploaded"]]
    /\ UNCHANGED <<fileQueue, isProcessing, immediates, enqueued, watchFiles,
                   processedFiles, configVars, writerVars, sessionVars>>

NextUpload ==
    \/ SessionLaunch
    \/ SessionLogin
    \/ SessionSubmit
    \/ \E pl \in UploadPayloads : SessionResponse(pl)
    \/ SessionWake
    \/ SessionClose

SpecUpload == InitUpload /\ [][NextUpload]_vars

\* The session's own continuations run: each awaited browser call settles
\* and each setTimeout fires.  Responses of the remote service are not owed.
SessionStep ==
    \/ SessionLaunch
    \/ SessionLogin
    \/ SessionSubmit
    \/ SessionWake
    \/ SessionClose

FairSpecUpload == SpecUpload /\ WF_vars(SessionStep)

\* ------------------------------------------------------------------ claims
RunIds == 1..Len(runs)
atCall(i) == runs[i].pc = "notifying"
lastNote(i) == runs[i].notes[Len(runs[i].notes)]
reportsFailure(i) == atCall(i) /\ lastNote(i).fn = "sendErrorEmail"
count(seq, x) == Cardinality({k \in 1..Len(seq) : seq[k] = x})

\* C1: at any time at most one file is mid-processing (stabilizing, in its
\* upload session, or in its terminal action), whatever the interleaving of
\* fileAdded events.
C1_OneFileAtATime == Cardinality(ActiveRuns) <= 1

\* a.mp3 is blocked in AwaitingCompletion and b.mp3 is still in the queue
C1_Witness ==
    /\ Len(runs) = 1
    /\ runs[1].filePath = A_MP3
    /\ runs[1].pc = "awaitingCompletion"
    /\ fileQueue = <<B_MP3>>

\* C2: the order in which files start being handled is the order in which
\* their paths were enqueued: the started paths are a prefix of the enqueued
\* paths.
C2_FifoOrder ==
    /\ Len(started) <= Len(enqueued)
    /\ \A k \in 1..Len(started) : started[k] = enqueued[k]

\* two different paths were waiting together behind a file being handled, one
\* of them enqueued after a handling had ended, and all three have been started
C2_Witness ==
    /\ enqueued = <<A_MP3, B_MP3, A_MP3>>
    /\ Len(runs) = 3
    /\ runs[1].pc = "done"

\* C3: after any outcome of a file isProcessing is false again, and every
\* path that was enqueued is eventually dequeued and handled to its end.
C3_WorkerLoopResumes ==
    /\ [](ActiveRuns = {} => ~isProcessing)
    /\ \A n \in 1..MaxAdds :
          (Len(enqueued) >= n) ~> (Len(runs) >= n /\ runs[n].pc = "done")

\* the first file failed, a path enqueued meanwhile has been handled after it
C3_Witness ==
    /\ Len(runs) >= 2
    /\ runs[1].pc = "done" /\ runs[1].outcome = "failure"
    /\ runs[2].pc = "done"
    /\ ~isProcessing

\* C4: every accepted fileAdded event is accounted for exactly once: its path
\* is waiting in the queue or has been given to exactly one handling, and a
\* finished handling has exactly one outcome, success or failure.
C4_NoneLostNoneTwice ==
    /\ \A p \in EventPaths :
          count(enqueued, p) = count(fileQueue, p) + count(started, p)
    /\ \A i \in RunIds :
          runs[i].pc = "done" => runs[i].outcome \in {"success", "failure"}

\* three accepted events, all handled: one succeeded, one failed
C4_Witness ==
    /\ Len(enqueued) = MaxAdds
    /\ fileQueue = <<>>
    /\ \A i \in RunIds : runs[i].pc = "done"
    /\ \E i, j \in RunIds : runs[i].outcome = "success" /\ runs[j].outcome = "failure"

\* C5: processFile is reached only after waitForStableFile has resolved with
\* stableChecks consecutive equal readings, and with a writer appending every
\* 200 ms under the 2-reading / 500 ms policy that never happens while the
\* writer is still on.
C5_NoUploadWhileWriting ==
    \A i \in RunIds :
        runs[i].pc = "launching" =>
            /\ ~writerOn
            /\ runs[i].waitError = NoMessage
            /\ runs[i].stableCount >= stableChecks

\* the writer appended several times, stopped, and the wait then resolved
C5_Witness ==
    /\ runs[1].pc = "launching"
    /\ fileSize >= 4
    /\ ~writerOn

\* C6 (as stated): a file deleted while waitForStableFile is polling it makes
\* the wait fail with 'File was deleted while waiting for it to stabilize'.
C6_DeletedWhilePolling ==
    \A i \in RunIds :
        (atCall(i) /\ runs[i].waitError # NoMessage /\ runs[i].filePath \notin watchFiles)
            => runs[i].waitError = DeletedMsg

\* C7: every handling makes exactly one Notifier call: none before its
\* terminal action, one pending at the terminal action, one when it is done.
C7_OneNotifierCall ==
    \A i \in RunIds :
        CASE runs[i].pc = "done" -> runs[i].calls = 1
          [] runs[i].pc = "notifying" -> Len(runs[i].notes) = 1
          [] OTHER -> Len(runs[i].notes) = 0

\* a handling that failed after its email could not be delivered, and one
\* that succeeded, each done with one call
C7_Witness ==
    /\ \E i \in RunIds : runs[i].pc = "done" /\ runs[i].outcome = "failure"
                         /\ runs[i].calls = 1
    /\ \E i \in RunIds : runs[i].pc = "done" /\ runs[i].outcome = "success"
                         /\ runs[i].calls = 1

\* C8: moveToProcessed is called only with a successful upload result: a step
\* that changes the Processed folder is the terminal action of a handling
\* whose result is ok, and a handling whose result is not ok attempted no move.
C8_RelocationOnlyOnSuccess ==
    [][ /\ \A i \in RunIds :
              (runs'[i].pc = "notifying" /\ ~runs'[i].result.ok)
                  => runs'[i].move = NoMove
        /\ processedFiles' # processedFiles =>
              \E i \in RunIds : /\ runs[i].pc # "notifying"
                                /\ runs'[i].pc = "notifying"
                                /\ runs'[i].result.ok
                                /\ runs'[i].move.attempted ]_vars

\* an upload failed and its file stayed; another succeeded and was relocated
C8_Witness ==
    /\ \E i \in RunIds : atCall(i) /\ ~runs[i].result.ok /\ runs[i].waitError = NoMessage
                         /\ runs[i].filePath \in watchFiles
    /\ \E e \in processedFiles : e.complete

C10_RelocationFailureReported ==
    \A i \in RunIds :
        (atCall(i) /\ runs[i].result.ok /\ runs[i].move.threw) =>
            /\ Len(runs[i].notes) = 1
            /\ lastNote(i).fn = "sendErrorEmail"
            /\ runs[i].move.error # NoMessage
            /\ lastNote(i).error =
                  <<"Failed to move file to Processed folder: ">> \o runs[i].move.error
            /\ Head(lastNote(i).error) \notin {"Processing failed: ",
                                               "Error during file handling: "}

\* the upload succeeded, the cross-device copy failed verification
C10_Witness ==
    \E i \in RunIds :
        /\ atCall(i) /\ runs[i].result.ok /\ runs[i].move.threw
        /\ runs[i].move.error =
              <<"Failed to move file to Processed: ", "Copy failed: ",
                "File size mismatch after copy - copy verification failed">>

\* uploadFileToGrain has fixed its return value and is in finally
atReturn(i) == runs[i].pc = "closing"
InitiationTimeoutMsg == <<"Upload initiation timeout: ">>
CompletionTimeoutMsg == <<"Upload completion timeout: ">>
\* the transfer a recording belongs to, as the remote service knows it
TransferOf(id) == IF id = "r1" THEN "u1" ELSE "u2"

\* C11 (as stated): when relocation fails after a successful upload, the
\* failure report carries the remote id or url obtained from the session.
C11_RelocationFailureCarriesRemote ==
    \A i \in RunIds :
        (atCall(i) /\ runs[i].result.ok /\ runs[i].move.threw) =>
            \/ lastNote(i).recordingUrl = runs[i].result.recordingUrl
            \/ includes(lastNote(i).error, <<runs[i].result.recordingUrl>>)
            \/ includes(lastNote(i).error, <<runs[i].result.recordingId>>)

\* C12 (as stated): a session that observed no initiation payload by the end
\* of the initiation window returns InitiationTimeout, and a session that
\* observed one within the window does not.
C12_InitiationWindow ==
    \A i \in RunIds :
        /\ (atReturn(i) /\ observed.ack = "none" /\ elapsedTime = initiationTimeout)
              => runs[i].result.message = InitiationTimeoutMsg
        /\ (atReturn(i) /\ observed.ack # "none")
              => runs[i].result.message # InitiationTimeoutMsg

\* C13 (as stated): the session is in AwaitingCompletion only after a response
\* with a well-formed initiation acknowledgment: a transfer identifier and a
\* size ceiling.
C13_WellFormedAckOnly ==
    \A i \in RunIds :
        runs[i].pc = "awaitingCompletion" => observed.ack = "wellFormed"

\* C14 (as stated): a completion payload with an empty reference or another
\* state never sets the success flag, a session returns success only after a
\* valid completion payload, and one that saw none by the end of the
\* completion window returns CompletionTimeout.
C14_InvalidCompletionNotSuccess ==
    \A i \in RunIds :
        /\ \A pl \in {EmptyReference, NotProcessing} :
              runs[i].pc = "awaitingCompletion" =>
                  onResponse(runs[i], pl).uploadSuccess = runs[i].uploadSuccess
        /\ (atReturn(i) /\ runs[i].result.ok) => observed.first # NoData
        /\ (atReturn(i) /\ observed.first = NoData /\ elapsedTime = completionTimeout)
              => runs[i].result.message = CompletionTimeoutMsg

\* C15 (as stated): a success is returned only for a recording of the
\* transfer that this session's initiation acknowledgment named.
C15_CompletionCorrelated ==
    \A i \in RunIds :
        (atReturn(i) /\ runs[i].result.ok) =>
            TransferOf(runs[i].result.recordingId) = InitiationAck.uploadInfo.uuid

\* C16 (as stated): once initiation was acknowledged, a session that observed
\* no valid completion when elapsedTime, restarted at zero for stage 2,
\* reaches the completion timeout returns CompletionTimeout, a reason
\* different from InitiationTimeout.
C16_CompletionWindow ==
    \A i \in RunIds :
        /\ CompletionTimeoutMsg # InitiationTimeoutMsg
        /\ (atReturn(i) /\ observed.ack # "none" /\ observed.first = NoData
                /\ elapsedTime >= completionTimeout)
              => runs[i].result.message = CompletionTimeoutMsg

\* C17 (as stated): the id and url of a success are those of the first valid
\* completion payload the session observed.
C17_FirstPayloadAuthoritative ==
    \A i \in RunIds :
        (atReturn(i) /\ runs[i].result.ok) =>
            /\ runs[i].result.recordingId = observed.first.id
            /\ runs[i].result.recordingUrl = observed.first.recordingUrl

\* C18: a response from another url, with a body that is not JSON, without
\* post data or for an unrelated operation changes nothing of the session:
\* neither flag, nor its position, nor its result.
C18_UnmatchedResponsesIgnored ==
    \A i \in RunIds : \A pl \in IgnoredPayloads :
        onResponse(runs[i], pl) = runs[i]

\* such responses were observed and the session is still waiting for a
\* completion, with initiation acknowledged and no completion recorded
C18_Witness ==
    /\ observed.ignored
    /\ runs[1].pc = "awaitingCompletion"
    /\ runs[1].uploadStarted /\ ~runs[1].uploadSuccess
    /\ observed.first = NoData
    /\ elapsedTime > pollInterval

C20_Unauthenticated ==
    \A i \in RunIds :
        /\ (runs[i].pc = "uploaded" /\ runs[i].browser = "none"
                /\ ~grainConfigured /\ runs[i].filePath \in watchFiles)
              => runs[i].result.message =
                    <<"GRAIN_EMAIL or GRAIN_PASSWORD not configured in .env file">>
        /\ (atReturn(i) /\ observed.rejected)
              => runs[i].result.message \notin
                    {UploadFailed(MissingInputMsg).message,
                     UploadFailed(<<"Navigation timeout">>).message}

\* the order of the stages of SessionState
StageOrder == <<"Idle", "Authenticating", "Submitting", "AwaitingInitiation",
                "AwaitingCompletion">>
IsPrefix(a, b) == Len(a) <= Len(b) /\ SubSeq(b, 1, Len(a)) = a

\* C21: the stages control has entered are an initial part of Idle,
\* Authenticating, Submitting, AwaitingInitiation, AwaitingCompletion, in
\* that order, followed by Terminal at most once; the session has an outcome
\* exactly when it is in Terminal; and a success has passed every stage, the
\* last one AwaitingCompletion.
C21_StagesInOrder ==
    LET st == observed.stages
        n == Len(st)
        ended == st[n] = "Terminal"
        body == IF ended THEN SubSeq(st, 1, n - 1) ELSE st
    IN  /\ IsPrefix(body, StageOrder)
        /\ ended <=> runs[1].pc \in {"closing", "uploaded"}
        /\ ended => runs[1].result.message # NoMessage
        /\ ~ended => runs[1].result = NoResult
        /\ (ended /\ runs[1].result.ok) => body = StageOrder

\* a session has returned a success after all five stages, having waited in
\* the completion loop
C21_Witness ==
    /\ runs[1].pc = "uploaded"
    /\ runs[1].result.ok
    /\ observed.stages = StageOrder \o <<"Terminal">>
    /\ elapsedTime > 0

\* C22: every session returns an outcome to processFile, and a waiting stage
\* is left only once its flag is set or its window is used up.
C22_SessionReturns ==
    /\ <>(runs[1].pc = "uploaded" /\ runs[1].result.message # NoMessage)
    /\ [][ /\ (runs[1].pc = "awaitingInitiation" /\ runs'[1].pc # "awaitingInitiation")
                => (runs[1].uploadStarted \/ elapsedTime' >= initiationTimeout)
           /\ (runs[1].pc = "awaitingCompletion" /\ runs'[1].pc # "awaitingCompletion")
                => (runs[1].uploadSuccess \/ elapsedTime' >= completionTimeout) ]_vars

\* a session that saw no response at all has returned at the end of the
\* initiation window
C22_Witness ==
    /\ runs[1].pc = "uploaded"
    /\ observed.ack = "none" /\ observed.first = NoData /\ ~observed.ignored
    /\ elapsedTime = initiationTimeout

\* C23: every wait ends, with one result that nothing changes afterwards and
\* with no poll after it; a wait not yet ended when the clock has passed
\* timeoutMs ends at the next poll, by the timeout error.
C23_WaitTerminates ==
    /\ <>(runs[1].pc # "stabilizing")
    /\ [](runs[1].pc = "stabilizing" => now < timeoutMs + intervalMs)
    /\ [][ /\ (runs[1].pc = "stabilizing" /\ runs'[1].pc # "stabilizing"
                  /\ now' > timeoutMs)
               => runs'[1].waitError = TimedOutMsg
           /\ runs[1].pc # "stabilizing"
               => /\ now' = now
                  /\ runs'[1].waitError = runs[1].waitError
                  /\ runs'[1].stableCount = runs[1].stableCount ]_vars

\* the wait has ended by the timeout while the writer was still appending
C23_Witness ==
    /\ runs[1].pc = "notifying"
    /\ runs[1].waitError = TimedOutMsg
    /\ writerOn
    /\ A_MP3 \in watchFiles
    /\ now = timeoutMs + intervalMs

\* C24: on the locals of any wait in progress, a poll that reads a size
\* different from the previous one, or finds the file locked (EACCES, EBUSY),
\* sets the counter to zero and the wait goes on; any other stat error
\* rejects with the access error; the poll resolves exactly when its reading
\* brings the counter to stableChecks.  A wait that has resolved ended with
\* the counter at stableChecks, a wait that was rejected below it.
C24_CounterResets ==
    \A i \in RunIds :
        /\ runs[i].pc = "stabilizing" =>
              /\ runs[i].stableCount < stableChecks
              /\ \A stat \in StatResults :
                    LET r == runs[i]
                        t == pollCallback(r.previousSize, r.stableCount, FALSE, TRUE, stat)
                    IN  /\ (stat.code = "ok" /\ stat.size # r.previousSize) =>
                              /\ t.outcome = "continue"
                              /\ t.stableCount = 0
                              /\ t.previousSize = stat.size
                        /\ stat.code \in {"EACCES", "EBUSY"} =>
                              t.outcome = "continue" /\ t.stableCount = 0
                        /\ stat.code \in {"ENOENT", "EIO"} =>
                              t.outcome = "reject" /\ t.error = AccessErrorMsg(stat.code)
                        /\ t.outcome = "resolve" <=>
                              /\ stat.code = "ok"
                              /\ stat.size = r.previousSize
                              /\ r.stableCount + 1 = stableChecks
        /\ runs[i].pc \notin {"stabilizing", "done"} =>
              (runs[i].waitError = NoMessage <=> runs[i].stableCount = stableChecks)

\* a wait in progress whose last poll found the file locked: the counter is
\* zero and the previous reading forgotten
C24_Witness ==
    \E i \in RunIds :
        /\ runs[i].pc = "stabilizing"
        /\ runs[i].polls > 1
        /\ runs[i].previousSize = -1
        /\ runs[i].stableCount = 0

\* C25: neither notifier function raises: each returns true or false, and
\* false when email is not configured, when the transporter cannot be
\* created or when sending fails; the return of a pending call ends the
\* handling, which is done with that one call, and processQueue's finally
\* clears the processing flag.
C25_NotifierNeverRaises ==
    [][ \A i \in RunIds :
           (runs[i].pc = "notifying" /\ runs'[i] # runs[i]) =>
              /\ runs'[i].pc = "done"
              /\ runs'[i].calls = 1
              /\ ~isProcessing'
              /\ \A configured, created, delivered \in BOOLEAN :
                    LET s == sendSuccessEmail(configured, created, delivered)
                        e == sendErrorEmail(configured, created, delivered)
                    IN  /\ s \in {"true", "false"} /\ e \in {"true", "false"}
                        /\ ~(configured /\ created /\ delivered) =>
                              s = "false" /\ e = "false" ]_vars

\* a notifier call has returned with another file waiting: the handling is
\* done and finally has scheduled the next processQueue
C25_Witness ==
    /\ ~isProcessing
    /\ immediates = 1
    /\ Len(fileQueue) = 1
    /\ \E i \in RunIds : runs[i].pc = "done" /\ runs[i].calls = 1

\* C26 (as stated): no relocation writes onto a path that already exists in
\* the Processed folder: the destination a successful move returns was free
\* before the move, and an entry the folder gains or changes has a path that
\* was free.
C26_CollisionFreeDestination ==
    [][ /\ \A i \in RunIds :
              (/\ runs[i].pc # "notifying"
               /\ runs'[i].pc = "notifying"
               /\ runs'[i].move.attempted
               /\ ~runs'[i].move.threw)
                 => ~existsIn(processedFiles, runs'[i].move.dest)
        /\ \A e \in processedFiles' \ processedFiles :
              ~existsIn(processedFiles, e.path) ]_vars

\* C27 (as stated): the original is removed only when a complete copy is at
\* the destination, and no file of the Processed folder is an incomplete
\* copy.
C27_CopyVerifyDelete ==
    /\ \A i \in RunIds :
          (runs[i].pc = "notifying" /\ runs[i].move.srcRemoved) =>
              \E e \in processedFiles : e.path = runs[i].move.dest /\ e.complete
    /\ \A e \in processedFiles : e.complete

\* the suffix of p is in the allow-list, letter case apart
SuffixAllowed(p) ==
    \E ext \in SUPPORTED_EXTENSIONS : toLowerCase(ext) = toLowerCase(extname(p))
\* p is a path inside the Processed folder
InsideProcessed(p) == IsPrefix(PROCESSED_FOLDER \o <<SEP>>, p)

\* C28 (as stated): the 'add' handler's test accepts a path exactly when its
\* suffix, letter case apart, is in the allow-list and the path is not inside
\* the Processed folder; only such paths have been enqueued.
C28_EnqueueIffSupported ==
    /\ \A p \in AddPaths :
          Accepted(p) <=> (SuffixAllowed(p) /\ ~InsideProcessed(p))
    /\ \A k \in 1..Len(enqueued) :
          SuffixAllowed(enqueued[k]) /\ ~InsideProcessed(enqueued[k])

\* C29 (as stated): every supported file present in the watch folder,
\* among them the ones already there when the process started, has been
\* enqueued by the running process.
C29_PresentFilesPickedUp ==
    \A p \in watchFiles :
        Accepted(p) => \E k \in 1..Len(enqueued) : enqueued[k] = p

\* how far a handling has come
PcRank(pc) ==
    CASE pc = "stabilizing" -> 0
      [] pc = "launching" -> 1
      [] pc = "authenticating" -> 2
      [] pc = "submitting" -> 3
      [] pc = "awaitingInitiation" -> 4
      [] pc = "awaitingCompletion" -> 5
      [] pc = "closing" -> 6
      [] pc = "notifying" -> 7
      [] OTHER -> 8

\* C30: the paths queued or handed to a handling grow by one with each
\* accepted fileAdded event and in no other step; a handling keeps its path,
\* only moves forward, so that it enters the upload session at most once,
\* and once done is never touched again.
C30_NoAutomaticRetry ==
    [][ /\ Len(fileQueue') + Len(runs') > Len(fileQueue) + Len(runs) =>
              /\ Len(fileQueue') + Len(runs') = Len(fileQueue) + Len(runs) + 1
              /\ \E p \in EventPaths : Accepted(p) /\ enqueued' = Append(enqueued, p)
        /\ Len(fileQueue') + Len(runs') >= Len(fileQueue) + Len(runs)
        /\ \A i \in RunIds :
              runs'[i] # runs[i] =>
                 /\ runs'[i].filePath = runs[i].filePath
                 /\ PcRank(runs'[i].pc) >= PcRank(runs[i].pc)
                 /\ runs[i].pc # "done" ]_vars

\* a handling has failed and nothing is pending: the file is still in the
\* watch folder, the queue is empty and no callback is scheduled
C30_Witness ==
    /\ Len(runs) = 1
    /\ runs[1].pc = "done" /\ runs[1].outcome = "failure"
    /\ runs[1].filePath \in watchFiles
    /\ fileQueue = <<>> /\ ~isProcessing /\ immediates = 0

\* C31: what the notifier does has no effect on the pipeline: whether email is
\* unconfigured, working or failing on every send, the return of a pending
\* call leaves the same run, the same queue, the same folders, the same flag
\* and the same scheduled callbacks, so that the files uploaded and relocated
\* and the order of processing are the same under all three.
C31_NotifierIndependent ==
    [][ \A i \in RunIds :
           (runs[i].pc = "notifying" /\ runs'[i] # runs[i]) =>
              /\ \A configured, created, delivered \in BOOLEAN :
                    runs'[i] = afterNotifier(runs[i],
                                  notifierOutcome(runs[i], configured, created, delivered))
              /\ runs'[i].outcome = IF runs[i].result.ok /\ ~runs[i].move.threw
                                    THEN "success" ELSE "failure"
              /\ isProcessing' = FALSE
              /\ immediates' = immediates + (IF Len(fileQueue) > 0 THEN 1 ELSE 0)
              /\ UNCHANGED <<fileQueue, enqueued, watchFiles, processedFiles>> ]_vars

\* a.mp3 was uploaded and relocated, then b.MP3 failed and stayed, each
\* handled to its end in the order of arrival
C31_Witness ==
    /\ Len(runs) = 2
    /\ runs[1].pc = "done" /\ runs[1].filePath = A_MP3 /\ runs[1].outcome = "success"
    /\ runs[2].pc = "done" /\ runs[2].filePath = B_MP3 /\ runs[2].outcome = "failure"
    /\ \E e \in processedFiles : e.from = A_MP3 /\ e.complete
    /\ B_MP3 \in watchFiles

\* C32 (as stated): an acknowledgment counts only in its own stage: a session
\* that has passed AwaitingInitiation did not take its initiation
\* acknowledgment from a response observed while it was logging in, and a
\* session that returns success did not take its completion from a response
\* observed before initiation was acknowledged.
C32_AckInOwnStage ==
    /\ runs[1].pc = "awaitingCompletion" => observed.ackIn # "Authenticating"
    /\ (atReturn(1) /\ runs[1].result.ok) => observed.firstAcked

\* C33: no wake-up is lost: whenever paths are waiting in the queue and no
\* file is being processed, a processQueue call is scheduled; the program is
\* never at rest with a path stranded in the queue.
C33_NoLostWakeup ==
    (Len(fileQueue) > 0 /\ ~isProcessing) => immediates > 0

\* two paths arrived while a file was being handled; its handling has ended
\* and the callback that will take the first of them is scheduled
C33_Witness ==
    /\ Len(fileQueue) = 2
    /\ ~isProcessing
    /\ immediates = 1
    /\ Len(runs) = 1 /\ runs[1].pc = "done"

\* C34: a wait never resolves before stableChecks + 1 size readings since its
\* start or since the last reset.  The counter is below the number of polls
\* made and is zero while no baseline is held; a poll raises it by one only
\* with a reading equal to the baseline it already held, and otherwise sets
\* it to zero, so the first reading, and the first after a lock reset the
\* baseline to -1, never counts; a wait resolves only from a held baseline
\* with the counter one short of stableChecks, at the third poll
\* ((stableChecks + 1) * intervalMs) at the earliest.
C34_EarliestSuccess ==
    [][ runs[1].pc = "stabilizing" =>
          /\ runs[1].stableCount <= (IF runs[1].polls = 0 THEN 0 ELSE runs[1].polls - 1)
          /\ runs[1].previousSize = -1 => runs[1].stableCount = 0
          /\ (runs'[1].pc # "stabilizing" /\ runs'[1].waitError = NoMessage) =>
                /\ runs[1].polls + 1 >= stableChecks + 1
                /\ now' >= (stableChecks + 1) * intervalMs
                /\ runs[1].previousSize # -1
                /\ runs[1].stableCount + 1 = stableChecks
          /\ (runs'[1].pc = "stabilizing" /\ runs'[1] # runs[1]) =>
                /\ runs'[1].stableCount \in {0, runs[1].stableCount + 1}
                /\ runs'[1].stableCount > 0 =>
                      /\ runs[1].previousSize # -1
                      /\ runs'[1].previousSize = runs[1].previousSize ]_vars

\* a file that never changed size was found locked at one poll: the wait
\* resolved at the fourth poll, three readings after the reset
C34_Witness ==
    /\ runs[1].pc = "launching"
    /\ runs[1].waitError = NoMessage
    /\ fileSize = 0
    /\ now = (stableChecks + 2) * intervalMs

\* a completion payload the handler takes as a success
ValidCompletion(pl) ==
    /\ pl.recording.present
    /\ pl.recording.recordingUrl # ""
    /\ pl.recording.state = "PROCESSING"

\* C35 (as stated): a session returns ok:true only if it observed both an
\* initiation acknowledgment and a completion acknowledgment, and the id and
\* url it returns are those of a completion payload with a non-empty
\* recordingUrl and state PROCESSING; a session that waited for initiation
\* and observed a completion payload but never an initiation returns the
\* initiation-timeout failure.
C35_SuccessNeedsBothAcks ==
    /\ (atReturn(1) /\ runs[1].result.ok) =>
          /\ observed.ack # "none"
          /\ observed.first # NoData
          /\ runs[1].result.recordingUrl # ""
          /\ \E pl \in UploadPayloads :
                /\ ValidCompletion(pl)
                /\ pl.recording.id = runs[1].result.recordingId
                /\ pl.recording.recordingUrl = runs[1].result.recordingUrl
    /\ (/\ atReturn(1)
        /\ \E k \in 1..Len(observed.stages) : observed.stages[k] = "AwaitingInitiation"
        /\ observed.first # NoData
        /\ observed.ack = "none")
          => runs[1].result.message = InitiationTimeoutMsg

\* C36 (as stated): relocation is all or nothing: a call of moveToProcessed
\* that throws leaves the watch folder and the Processed folder as they
\* were; a call that returns leaves a complete copy of the file at the
\* returned destination and the source path empty.
C36_RelocationAllOrNothing ==
    [][ \A i \in RunIds :
           (/\ runs[i].pc # "notifying"
            /\ runs'[i].pc = "notifying"
            /\ runs'[i].move.attempted) =>
              IF runs'[i].move.threw
              THEN /\ watchFiles' = watchFiles
                   /\ processedFiles' = processedFiles
              ELSE /\ runs[i].filePath \notin watchFiles'
                   /\ \E e \in processedFiles' :
                         /\ e.path = runs'[i].move.dest
                         /\ e.from = runs[i].filePath
                         /\ e.complete ]_vars

\* C37: processFile never throws: once uploadFileToGrain is over, however it
\* ended, processFile holds a result with a boolean ok and a message; when
\* browser.close failed in the finally block, also after a successful
\* upload, the result is ok:false with the message 'Processing error: ...'.
C37_ProcessFileNeverThrows ==
    runs[1].pc = "uploaded" =>
        /\ runs[1].result.ok \in BOOLEAN
        /\ runs[1].result.message # NoMessage
        /\ runs[1].browser = "open" =>
              /\ ~runs[1].result.ok
              /\ Head(runs[1].result.message) = "Processing error: "
              /\ runs[1].result.recordingUrl = ""

\* the session went through every stage and ended on a valid completion
\* before the completion window was over; browser.close then failed and
\* processFile returned the failure
C37_Witness ==
    /\ runs[1].pc = "uploaded"
    /\ runs[1].browser = "open"
    /\ observed.stages = StageOrder \o <<"Terminal">>
    /\ observed.first # NoData
    /\ elapsedTime < completionTimeout
    /\ ~runs[1].result.ok

\* C38: sendSuccessEmail is called for a file only after its upload returned
\* ok and moveToProcessed returned: a handling with a success notification
\* pending has an ok result and a move that was attempted, did not throw and
\* removed the source, and it is its only notification; at the moment of the
\* call the file is no longer in the watch folder and is at the destination
\* in the Processed folder.
C38_SuccessMailAfterRelocation ==
    /\ [](\A i \in RunIds :
            (atCall(i) /\ \E k \in 1..Len(runs[i].notes) :
                             runs[i].notes[k].fn = "sendSuccessEmail") =>
               /\ runs[i].result.ok
               /\ runs[i].move.attempted
               /\ ~runs[i].move.threw
               /\ runs[i].move.srcRemoved
               /\ Len(runs[i].notes) = 1)
    /\ [][ \A i \in RunIds :
             (/\ runs[i].pc # "notifying"
              /\ runs'[i].pc = "notifying"
              /\ runs'[i].notes[Len(runs'[i].notes)].fn = "sendSuccessEmail") =>
                /\ runs[i].filePath \notin watchFiles'
                /\ existsIn(processedFiles', runs'[i].move.dest) ]_vars

\* the success notification for a.mp3 is pending: the file has left the
\* watch folder and is in the Processed folder under its own name
C38_Witness ==
    \E i \in RunIds :
        /\ atCall(i)
        /\ lastNote(i).fn = "sendSuccessEmail"
        /\ runs[i].filePath = A_MP3
        /\ A_MP3 \notin watchFiles
        /\ runs[i].move.dest = P_MP3

\* C39: a call of uploadFileToGrain for a path that does not exist, or
\* without GRAIN_EMAIL / GRAIN_PASSWORD, returns ok:false directly: no
\* browser is launched and the handling goes straight to its failure report
\* without a move; the message is the missing-file one whenever the file is
\* missing, and the not-configured one only when the file exists.  A
\* handling is in the upload session, or holds a browser, only with the
\* credentials configured.
C39_NoLaunchWithoutInputs ==
    /\ [](\A i \in RunIds :
            (runs[i].pc \in {"launching", "authenticating", "submitting",
                             "awaitingInitiation", "awaitingCompletion", "closing"}
             \/ (runs[i].pc = "notifying" /\ runs[i].browser # "none"))
               => grainConfigured)
    /\ [][ \A i \in RunIds :
             (/\ runs[i].pc = "stabilizing"
              /\ runs'[i].pc # "stabilizing"
              /\ runs'[i].waitError = NoMessage) =>
                LET missing == runs[i].filePath \notin watchFiles'
                IN  IF missing \/ ~grainConfigured
                    THEN /\ runs'[i].pc = "notifying"
                         /\ runs'[i].browser = "none"
                         /\ ~runs'[i].result.ok
                         /\ runs'[i].result.message =
                               IF missing
                               THEN <<"File does not exist: ", "filePath">>
                               ELSE <<"GRAIN_EMAIL or GRAIN_PASSWORD not configured in .env file">>
                         /\ runs'[i].move = NoMove
                         /\ processedFiles' = processedFiles
                    ELSE /\ runs'[i].pc = "launching"
                         /\ runs'[i].browser = "none"
                         /\ runs'[i].result = NoResult ]_vars

\* the file vanished after the wait resolved and the credentials are missing
\* too: the call has returned the missing-file failure, with no browser
C39_Witness ==
    \E i \in RunIds :
        /\ atCall(i)
        /\ ~grainConfigured
        /\ runs[i].waitError = NoMessage
        /\ runs[i].browser = "none"
        /\ Head(runs[i].result.message) = "File does not exist: "

====
